---- MODULE Spec2Model ----
(***************************************************************************)
(* Model of app/services/code_analysis_service.py: the Python structure    *)
(* extractor (PythonCodeAnalyzer), the metrics calculator, the language    *)
(* detector and the context extractor of CodeAnalysisService.              *)
(*                                                                         *)
(* A text is a sequence of atoms.  The atoms "\n", " " and "#" are single  *)
(* characters; every other atom is an unbreakable run of characters that   *)
(* holds no newline, no blank and no "#" to the tokenizer (one statement   *)
(* of the small Python subset below, or one character of a file name).     *)
(***************************************************************************)
EXTENDS Integers, Sequences, FiniteSets, TLC

VARIABLES source_code, structure, result, earlier, calls, file_path, file, request,
          repo, walk, results, instances, tasks, held

vars == <<source_code, structure, result, earlier, calls, file_path, file, request,
          repo, walk, results, instances, tasks, held>>

\* ------------------------------------------------------------------ bounds
MaxLines == 4
MaxCalls == 2
MaxPathLen == 5
MaxFileLines == 4
MaxContext == 2
Slack == 2
HeapBases == {4096, 8192}

\* ------------------------------------------------------------ Python values
None == "None"
NoValue == [kind |-> "none"]

Returned(v) == [kind |-> "return", value |-> v]

Raised(e) == [kind |-> "raise", exc |-> e]

\* -------------------------------------------------------------- str methods
Whitespace == {" ", "\t"}

RECURSIVE SplitAt(_, _, _)
SplitAt(s, sep, cur) ==
    IF s = <<>> THEN <<cur>>
    ELSE IF Head(s) = sep THEN <<cur>> \o SplitAt(Tail(s), sep, <<>>)
    ELSE SplitAt(Tail(s), sep, Append(cur, Head(s)))

\* str.split(sep): always at least one piece, the empty text gives <<"">>
Split(s, sep) == SplitAt(s, sep, <<>>)

RECURSIVE LStrip(_)
LStrip(s) == IF s # <<>> /\ Head(s) \in Whitespace THEN LStrip(Tail(s)) ELSE s

RECURSIVE RStrip(_)
RStrip(s) ==
    IF s # <<>> /\ s[Len(s)] \in Whitespace THEN RStrip(SubSeq(s, 1, Len(s) - 1)) ELSE s

Strip(s) == RStrip(LStrip(s))

StartsWith(s, c) == s # <<>> /\ Head(s) = c

RECURSIVE Join(_, _)
Join(pieces, sep) ==
    IF pieces = <<>> THEN <<>>
    ELSE IF Len(pieces) = 1 THEN Head(pieces)
    ELSE Head(pieces) \o <<sep>> \o Join(Tail(pieces), sep)

RECURSIVE JoinStr(_, _)
JoinStr(parts, sep) ==
    IF parts = <<>> THEN ""
    ELSE IF Len(parts) = 1 THEN Head(parts)
    ELSE Head(parts) \o sep \o JoinStr(Tail(parts), sep)

Reversed(s) == [i \in 1..Len(s) |-> s[Len(s) + 1 - i]]

\* all sequences over S of length lo..hi
SeqsOf(S, lo, hi) == UNION {[1..n -> S] : n \in lo..hi}


\* ------------------------------------------------- the Python subset parsed
\* One atom is one logical line of the subset.  kind: "simple" (a one-line
\* statement), "header" (opens an indented block), "decorator", "unclosed"
\* (an opening parenthesis that is never closed).  The lines that follow an
\* unclosed parenthesis are read as its continuation; the parser's report for
\* it is modelled for texts that do not hold "x = 1" after it.
NoNode == [type |-> "NoneType"]

Arg(name) == [arg |-> name, annotation |-> NoNode]

Name(id) == [type |-> "Name", id |-> id, lineno |-> 0]

Call(func) == [type |-> "Call", func |-> func, lineno |-> 0]

PassStmt == [type |-> "Pass", lineno |-> 0, end_lineno |-> 0, body |-> <<>>]

\* ast.arguments: vararg and kwarg are sequences of at most one parameter
Arguments(posonlyargs, args, vararg, kwonlyargs, kw_defaults, kwarg, defaults) ==
    [posonlyargs |-> posonlyargs, args |-> args, vararg |-> vararg,
     kwonlyargs |-> kwonlyargs, kw_defaults |-> kw_defaults, kwarg |-> kwarg,
     defaults |-> defaults]

FunctionDefWith(type, name, arguments) ==
    [type |-> type, name |-> name, lineno |-> 0, end_lineno |-> 0,
     args |-> arguments, returns |-> NoNode,
     body |-> <<PassStmt>>, decorator_list |-> <<>>]

FunctionDef(type, name, args) ==
    FunctionDefWith(type, name, Arguments(<<>>, args, <<>>, <<>>, <<>>, <<>>, <<>>))

Annotated(name, annotation) == [arg |-> name, annotation |-> annotation]

Attribute(value, attr) == [type |-> "Attribute", value |-> value, attr |-> attr, lineno |-> 0]

Subscript(value, slice) ==
    [type |-> "Subscript", value |-> value, slice |-> slice, lineno |-> 0]

ClassDef(name, bases) ==
    [type |-> "ClassDef", name |-> name, lineno |-> 0, end_lineno |-> 0,
     bases |-> bases, body |-> <<>>, decorator_list |-> <<>>]

Constant(value, pytype, text) ==
    [type |-> "Constant", value |-> value, kind |-> pytype, text |-> text, lineno |-> 0]

Import(names) ==
    [type |-> "Import", names |-> names, lineno |-> 0, end_lineno |-> 0, body |-> <<>>]

ImportFrom(module, names) ==
    [type |-> "ImportFrom", module |-> module, names |-> names, lineno |-> 0,
     end_lineno |-> 0, body |-> <<>>]

Alias(name, asname) == [name |-> name, asname |-> asname]

Assign(targets, value) ==
    [type |-> "Assign", targets |-> targets, value |-> value, lineno |-> 0,
     end_lineno |-> 0, body |-> <<>>]

\* a one-line def or class can carry decorators, other one-line statements not
Simple(node) ==
    [kind |-> "simple", node |-> node,
     decoratable |-> node.type \in {"FunctionDef", "AsyncFunctionDef"}]

Stmt(code) ==
    CASE code = "def f(): pass" -> Simple(FunctionDef("FunctionDef", "f", <<>>))
      [] code = "def m(self): pass" ->
            Simple(FunctionDef("FunctionDef", "m", <<Arg("self")>>))
      [] code = "async def n(self): pass" ->
            Simple(FunctionDef("AsyncFunctionDef", "n", <<Arg("self")>>))
      [] code = "class A:" ->
            [kind |-> "header", node |-> ClassDef("A", <<>>),
             what |-> "class definition", decoratable |-> TRUE]
      [] code = "@g" -> [kind |-> "decorator", expr |-> Name("g"), decoratable |-> TRUE]
      [] code = "@f()()" ->
            [kind |-> "decorator", expr |-> Call(Call(Name("f"))), decoratable |-> TRUE]
      [] code = "def broken(" -> [kind |-> "unclosed", decoratable |-> TRUE]
      [] code = "import os" -> Simple(Import(<<[name |-> "os", asname |-> None]>>))
      [] code = "x = 1" -> Simple(Assign(<<Name("x")>>, Constant(1, "int", "1")))
      [] code = "def g(): pass" -> Simple(FunctionDef("FunctionDef", "g", <<>>))
      [] code = "def f():" ->
            [kind |-> "header", node |-> FunctionDef("FunctionDef", "f", <<>>),
             what |-> "function definition", decoratable |-> TRUE]
      [] code = "import os, sys as s" ->
            Simple(Import(<<Alias("os", None), Alias("sys", "s")>>))
      [] code = "from a.b import x, y" ->
            Simple(ImportFrom("a.b", <<Alias("x", None), Alias("y", None)>>))
      [] code = "from . import x as z" ->
            Simple(ImportFrom(None, <<Alias("x", "z")>>))
      [] code = "def p(a, b: int = 1): pass" ->
            Simple(FunctionDefWith("FunctionDef", "p",
                      Arguments(<<>>, <<Arg("a"), Annotated("b", Name("int"))>>, <<>>,
                                <<>>, <<>>, <<>>, <<Constant(1, "int", "1")>>)))
      [] code = "def q(a, *args, **kw): pass" ->
            Simple(FunctionDefWith("FunctionDef", "q",
                      Arguments(<<>>, <<Arg("a")>>, <<Arg("args")>>,
                                <<>>, <<>>, <<Arg("kw")>>, <<>>)))
      [] code = "def r(a=1, /): pass" ->
            Simple(FunctionDefWith("FunctionDef", "r",
                      Arguments(<<Arg("a")>>, <<>>, <<>>,
                                <<>>, <<>>, <<>>, <<Constant(1, "int", "1")>>)))
      [] code = "def s(a, *, c=3): pass" ->
            Simple(FunctionDefWith("FunctionDef", "s",
                      Arguments(<<>>, <<Arg("a")>>, <<>>,
                                <<Arg("c")>>, <<Constant(3, "int", "3")>>, <<>>, <<>>)))
      [] code = "class B(A, a.b.C):" ->
            [kind |-> "header",
             node |-> ClassDef("B", <<Name("A"),
                                      Attribute(Attribute(Name("a"), "b"), "C")>>),
             what |-> "class definition", decoratable |-> TRUE]
      [] code = "class D(A, G[T]):" ->
            [kind |-> "header",
             node |-> ClassDef("D", <<Name("A"), Subscript(Name("G"), Name("T"))>>),
             what |-> "class definition", decoratable |-> TRUE]

\* ------------------------------------------------------------- ast.parse
NoErr == [exc |-> "", lineno |-> 0, msg |-> ""]

LeadingSpaces(l) == Len(l) - Len(LStrip(l))

\* blank lines and comment-only lines are dropped by the tokenizer
IsIgnored(l) == Strip(l) = <<>> \/ StartsWith(Strip(l), "#")

\* the significant lines: line number, indentation, statement
SigLines(lines) ==
    LET idx == SelectSeq([i \in 1..Len(lines) |-> i], LAMBDA i : ~IsIgnored(lines[i]))
    IN [k \in 1..Len(idx) |->
          [lineno |-> idx[k], indent |-> LeadingSpaces(lines[idx[k]]),
           code |-> Head(Strip(lines[idx[k]]))]]

\* the line the parser reports for an error at the end of the input
EofLine(lines) ==
    IF lines[Len(lines)] # <<>> THEN Len(lines)
    ELSE IF Len(lines) > 2 THEN Len(lines) - 1 ELSE 1

At(node, lineno, end_lineno) ==
    IF node.type \in {"FunctionDef", "AsyncFunctionDef"}
    THEN [node EXCEPT !.lineno = lineno, !.end_lineno = end_lineno,
                      !.body = <<[PassStmt EXCEPT !.lineno = lineno, !.end_lineno = lineno]>>]
    ELSE [node EXCEPT !.lineno = lineno, !.end_lineno = end_lineno]

FailStmt(exc, lineno, msg) ==
    [err |-> [exc |-> exc, lineno |-> lineno, msg |-> msg], node |-> NoNode, next |-> 0]

FailBlock(exc, lineno, msg) ==
    [err |-> [exc |-> exc, lineno |-> lineno, msg |-> msg], body |-> <<>>, next |-> 0]

\* a dedent to a column that no enclosing block has: the tokenizer's error
BadDedent(sig, i, ind, outer) ==
    i <= Len(sig) /\ sig[i].indent < ind /\ sig[i].indent \notin outer

Inconsistent(sig, i) ==
    FailStmt("IndentationError", sig[i].lineno,
             "unindent does not match any outer indentation level")

RECURSIVE ParseStmt(_, _, _, _, _), ParseBlock(_, _, _, _, _)

\* one statement that starts at significant line i, at indentation ind, in
\* blocks whose enclosing blocks have the indentations outer
ParseStmt(sig, i, ind, outer, eof) ==
    LET ln == sig[i].lineno
        s == Stmt(sig[i].code)
        more == i + 1 <= Len(sig)
    IN CASE s.kind = "simple" ->
              [err |-> NoErr, node |-> At(s.node, ln, ln), next |-> i + 1]
         [] s.kind = "unclosed" ->
              IF \E k \in (i + 1)..Len(sig) : Stmt(sig[k].code).kind = "unclosed"
              THEN FailStmt("SyntaxError", sig[i + 1].lineno, "invalid syntax")
              ELSE FailStmt("SyntaxError", ln, "'(' was never closed")
         [] s.kind = "decorator" ->
              IF ~more
              THEN IF ind = 0 THEN FailStmt("SyntaxError", eof, "invalid syntax")
                   ELSE FailStmt("IndentationError", eof, "unexpected unindent")
              ELSE IF BadDedent(sig, i + 1, ind, outer)
              THEN Inconsistent(sig, i + 1)
              ELSE IF sig[i + 1].indent > ind
              THEN FailStmt("IndentationError", sig[i + 1].lineno, "unexpected indent")
              ELSE IF sig[i + 1].indent < ind
              THEN FailStmt("IndentationError", sig[i + 1].lineno, "unexpected unindent")
              ELSE IF ~Stmt(sig[i + 1].code).decoratable
              THEN FailStmt("SyntaxError", sig[i + 1].lineno, "invalid syntax")
              ELSE LET r == ParseStmt(sig, i + 1, ind, outer, eof)
                   IN IF r.err # NoErr THEN r
                      ELSE [r EXCEPT !.node.decorator_list =
                                        <<[s.expr EXCEPT !.lineno = ln]>> \o @]
         [] s.kind = "header" ->
              IF BadDedent(sig, i + 1, ind, outer)
              THEN Inconsistent(sig, i + 1)
              ELSE IF ~more \/ sig[i + 1].indent <= ind
              THEN FailStmt("IndentationError", IF more THEN sig[i + 1].lineno ELSE eof,
                            "expected an indented block after " \o s.what
                                \o " on line " \o ToString(ln))
              ELSE LET b == ParseBlock(sig, i + 1, sig[i + 1].indent,
                                       outer \cup {ind}, eof)
                   IN IF b.err # NoErr THEN FailStmt(b.err.exc, b.err.lineno, b.err.msg)
                      ELSE [err |-> NoErr,
                            node |-> [At(s.node, ln, b.body[Len(b.body)].end_lineno)
                                        EXCEPT !.body = b.body],
                            next |-> b.next]

\* the statements at indentation ind from significant line i on, up to the
\* first dedent or the end of the input
ParseBlock(sig, i, ind, outer, eof) ==
    IF BadDedent(sig, i, ind, outer)
    THEN FailBlock("IndentationError", sig[i].lineno,
                   "unindent does not match any outer indentation level")
    ELSE IF i > Len(sig) \/ sig[i].indent < ind
    THEN [err |-> NoErr, body |-> <<>>, next |-> i]
    ELSE IF sig[i].indent > ind
    THEN FailBlock("IndentationError", sig[i].lineno, "unexpected indent")
    ELSE LET s == ParseStmt(sig, i, ind, outer, eof)
         IN IF s.err # NoErr THEN FailBlock(s.err.exc, s.err.lineno, s.err.msg)
            ELSE LET rest == ParseBlock(sig, s.next, ind, outer, eof)
                 IN IF rest.err # NoErr THEN rest
                    ELSE [err |-> NoErr, body |-> <<s.node>> \o rest.body,
                          next |-> rest.next]

\* ast.parse(source): the Module tree, or SyntaxError(lineno, msg) or its
\* subclass IndentationError
ast_parse(source) ==
    LET lines == Split(source, "\n")
        r == ParseBlock(SigLines(lines), 1, 0, {}, EofLine(lines))
    IN IF r.err # NoErr
       THEN [kind |-> "raise", exc |-> r.err.exc, lineno |-> r.err.lineno,
             msg |-> r.err.msg]
       ELSE Returned([type |-> "Module", body |-> r.body])

\* ------------------------------------------------------ PythonCodeAnalyzer
\* an analyzer whose lists are not emptied at construction
AnalyzerKeepsLists(source) ==
    [source_code |-> source, classes |-> <<>>, functions |-> <<>>,
     variables |-> <<>>,
     imports |-> <<[module |-> "os", names |-> <<"os">>, alias |-> None,
                    lineno |-> 1, is_from |-> FALSE]>>,
     errors |-> <<"Syntax error at line 1: invalid syntax">>,
     _current_class |-> None]

\* __init__: the analyzer's fields
PythonCodeAnalyzer(source) ==
    [source_code |-> source, classes |-> <<>>, functions |-> <<>>,
     variables |-> <<>>, imports |-> <<>>, errors |-> <<>>,
     _current_class |-> None]

CodeStructure(self) ==
    [classes |-> self.classes, functions |-> self.functions,
     variables |-> self.variables, imports |-> self.imports,
     errors |-> self.errors]

RECURSIVE unparse(_)
\* ast.unparse of the expressions of the subset
unparse(e) ==
    CASE e.type = "Name" -> e.id
      [] e.type = "Constant" -> e.text
      [] e.type = "Attribute" -> unparse(e.value) \o "." \o e.attr
      [] e.type = "Call" -> unparse(e.func) \o "()"

RECURSIVE AttrParts(_)
\* the while loop of _get_attr_name: attributes from the right, then the name
AttrParts(current) ==
    IF current.type = "Attribute" THEN <<current.attr>> \o AttrParts(current.value)
    ELSE IF current.type = "Name" THEN <<current.id>>
    ELSE <<>>

_get_attr_name(node) == JoinStr(Reversed(AttrParts(node)), ".")

\* str(node) of an object without __str__: its type and its address, which is
\* the allocation base of this parse plus the position of the node
ObjectStr(node, heap) ==
    "<ast." \o node.type \o " object at " \o ToString(heap + node.lineno) \o ">"

_get_decorator_name(node, heap) ==
    IF node.type = "Name" THEN node.id
    ELSE IF node.type = "Attribute" THEN _get_attr_name(node)
    ELSE IF node.type = "Call" /\ node.func.type = "Name" THEN node.func.id
    ELSE IF node.type = "Call" /\ node.func.type = "Attribute"
    THEN _get_attr_name(node.func)
    ELSE ObjectStr(node, heap)

\* ast.get_docstring: the leading string-literal expression statement
get_docstring(node) ==
    IF node.body # <<>> /\ node.body[1].type = "Expr"
       /\ node.body[1].value.type = "Constant" /\ node.body[1].value.kind = "str"
    THEN node.body[1].value.value
    ELSE None

_extract_function_info(node, is_async, heap) ==
    [name |-> node.name,
     lineno |-> node.lineno,
     end_lineno |-> node.end_lineno,
     args |-> [k \in 1..Len(node.args.args) |->
                 LET arg == node.args.args[k]
                 IN IF arg.annotation # NoNode
                    THEN arg.arg \o ": " \o unparse(arg.annotation)
                    ELSE arg.arg],
     defaults |-> [k \in 1..Len(node.args.defaults) |-> unparse(node.args.defaults[k])],
     return_type |-> IF node.returns # NoNode THEN unparse(node.returns) ELSE None,
     docstring |-> get_docstring(node),
     decorators |-> [k \in 1..Len(node.decorator_list) |->
                       _get_decorator_name(node.decorator_list[k], heap)],
     is_async |-> is_async \/ node.type = "AsyncFunctionDef"]

RECURSIVE Flatten(_)
Flatten(ss) == IF ss = <<>> THEN <<>> ELSE Head(ss) \o Flatten(Tail(ss))

IsName(e) == e.type = "Name"

\* the bare-name targets of an assignment
NameTargets(node) ==
    LET names == SelectSeq(node.targets, IsName)
    IN [k \in 1..Len(names) |-> names[k].id]

IsFunctionDef(item) == item.type \in {"FunctionDef", "AsyncFunctionDef"}

IsAssign(item) == item.type = "Assign"

IsNamedBase(base) == base.type \in {"Name", "Attribute"}

_get_value_type(node) ==
    IF node.type = "Constant" THEN node.kind
    ELSE IF node.type = "List" THEN "list"
    ELSE IF node.type = "Dict" THEN "dict"
    ELSE IF node.type = "Set" THEN "set"
    ELSE IF node.type = "Tuple" THEN "tuple"
    ELSE IF node.type = "Call" /\ node.func.type = "Name" THEN node.func.id
    ELSE "unknown"

RECURSIVE visit(_, _, _), VisitEach(_, _, _)

\* NodeVisitor.generic_visit: visit every child node; the only children that
\* reach a visit_ method are the statements of the body
generic_visit(self, node, heap) == VisitEach(self, node.body, heap)

ClassInfo(node, heap) ==
    LET bases == SelectSeq(node.bases, IsNamedBase)
        methods == SelectSeq(node.body, IsFunctionDef)
        assigns == SelectSeq(node.body, IsAssign)
    IN [name |-> node.name,
        lineno |-> node.lineno,
        end_lineno |-> node.end_lineno,
        bases |-> [k \in 1..Len(bases) |->
                     IF bases[k].type = "Name" THEN bases[k].id
                     ELSE _get_attr_name(bases[k])],
        methods |-> [k \in 1..Len(methods) |->
                       _extract_function_info(methods[k], FALSE, heap)],
        attributes |-> Flatten([k \in 1..Len(assigns) |-> NameTargets(assigns[k])]),
        docstring |-> get_docstring(node),
        decorators |-> [k \in 1..Len(node.decorator_list) |->
                          _get_decorator_name(node.decorator_list[k], heap)]]

\* _current_class is set while the class's own record is built and is reset
\* before the children of the class are visited
ClassVisited(self, node, heap) ==
    LET entered == [self EXCEPT !._current_class = node.name]
    IN [entered EXCEPT !.classes = Append(@, ClassInfo(node, heap)),
                       !._current_class = None]

visit_ClassDef(self, node, heap) ==
    generic_visit(ClassVisited(self, node, heap), node, heap)

\* a visit_ method of a definition up to its call of generic_visit
FunctionVisited(self, node, is_async, heap) ==
    IF self._current_class = None
    THEN [self EXCEPT !.functions =
             Append(@, _extract_function_info(node, is_async, heap))]
    ELSE self

visit_FunctionDef(self, node, heap) ==
    generic_visit(FunctionVisited(self, node, FALSE, heap), node, heap)

visit_AsyncFunctionDef(self, node, heap) ==
    generic_visit(FunctionVisited(self, node, TRUE, heap), node, heap)

AssignVisited(self, node) ==
    IF self._current_class = None
    THEN LET names == NameTargets(node)
         IN [self EXCEPT !.variables =
                @ \o [k \in 1..Len(names) |->
                        [name |-> names[k], lineno |-> node.lineno,
                         value_type |-> _get_value_type(node.value)]]]
    ELSE self

visit_Assign(self, node, heap) == generic_visit(AssignVisited(self, node), node, heap)

\* one entry for the statement, whatever the number of modules it names
ImportOneEntry(self, node, heap) ==
    [self EXCEPT !.imports =
        Append(@, [module |-> node.names[1].name,
                   names |-> [k \in 1..Len(node.names) |-> node.names[k].name],
                   alias |-> node.names[1].asname, lineno |-> node.lineno,
                   is_from |-> FALSE])]

\* no generic_visit in visit_Import and visit_ImportFrom
visit_Import(self, node, heap) ==
    [self EXCEPT !.imports =
        @ \o [k \in 1..Len(node.names) |->
                [module |-> node.names[k].name, names |-> <<node.names[k].name>>,
                 alias |-> node.names[k].asname, lineno |-> node.lineno,
                 is_from |-> FALSE]]]

visit_ImportFrom(self, node, heap) ==
    [self EXCEPT !.imports =
        Append(@, [module |-> IF node.module # None THEN node.module ELSE "",
                   names |-> [k \in 1..Len(node.names) |-> node.names[k].name],
                   alias |-> None, lineno |-> node.lineno, is_from |-> TRUE])]

\* NodeVisitor.visit: dispatch on the node type
visit(self, node, heap) ==
    CASE node.type = "ClassDef" -> visit_ClassDef(self, node, heap)
      [] node.type = "FunctionDef" -> visit_FunctionDef(self, node, heap)
      [] node.type = "AsyncFunctionDef" -> visit_AsyncFunctionDef(self, node, heap)
      [] node.type = "Assign" -> visit_Assign(self, node, heap)
      [] node.type = "Import" -> visit_Import(self, node, heap)
      [] node.type = "ImportFrom" -> visit_ImportFrom(self, node, heap)
      [] OTHER -> generic_visit(self, node, heap)

VisitEach(self, nodes, heap) ==
    IF nodes = <<>> THEN self
    ELSE VisitEach(visit(self, Head(nodes), heap), Tail(nodes), heap)

\* str(e.lineno) and the f-string of the except clause
SyntaxErrorText(e) == "Syntax error at line " \o ToString(e.lineno) \o ": " \o e.msg

\* a handler that compares the exception's exact class
CaughtExactClass == {"SyntaxError"}

\* the exceptions the except clause of analyze() catches: SyntaxError and
\* its subclasses
Caught == {"SyntaxError", "IndentationError", "TabError"}

\* the return statement of analyze(): the analyzer and the structure of its lists
AnalyzeReturn(after) == [self |-> after, out |-> Returned(CodeStructure(after))]

\* the try statement of analyze() on what ast.parse gave
AnalyzeParsed(self, tree, heap) ==
    IF tree.kind = "return" THEN AnalyzeReturn(visit(self, tree.value, heap))
    ELSE IF tree.exc \in Caught
    THEN AnalyzeReturn([self EXCEPT !.errors = Append(@, SyntaxErrorText(tree))])
    ELSE [self |-> self, out |-> Raised(tree.exc)]

\* analyze(): the analyzer after the call and what the call returns or raises
analyze(self, heap) == AnalyzeParsed(self, ast_parse(self.source_code), heap)

\* ------------------------------------------------------ CodeAnalysisService
IsNonEmpty(l) == Strip(l) # <<>>

IsComment(l) == StartsWith(Strip(l), "#")

\* code_lines without the comment lines taken off
MetricsCommentsCounted(source, struct) ==
    LET lines == Split(source, "\n")
        non_empty_lines == SelectSeq(lines, IsNonEmpty)
        comment_lines == SelectSeq(lines, IsComment)
    IN [total_lines |-> Len(lines),
        code_lines |-> Len(non_empty_lines),
        comment_lines |-> Len(comment_lines),
        blank_lines |-> Len(lines) - Len(non_empty_lines),
        classes_count |-> Len(struct.classes),
        functions_count |-> Len(struct.functions),
        imports_count |-> Len(struct.imports)]

\* the three structure counts taken from the wrong lists
MetricsCountsShifted(source, struct) ==
    LET lines == Split(source, "\n")
        non_empty_lines == SelectSeq(lines, IsNonEmpty)
        comment_lines == SelectSeq(lines, IsComment)
    IN [total_lines |-> Len(lines),
        code_lines |-> Len(non_empty_lines) - Len(comment_lines),
        comment_lines |-> Len(comment_lines),
        blank_lines |-> Len(lines) - Len(non_empty_lines),
        classes_count |-> Len(struct.functions),
        functions_count |-> Len(struct.imports),
        imports_count |-> Len(struct.classes)]

_calculate_metrics(source, struct) ==
    LET lines == Split(source, "\n")
        non_empty_lines == SelectSeq(lines, IsNonEmpty)
        comment_lines == SelectSeq(lines, IsComment)
    IN [total_lines |-> Len(lines),
        code_lines |-> Len(non_empty_lines) - Len(comment_lines),
        comment_lines |-> Len(comment_lines),
        blank_lines |-> Len(lines) - Len(non_empty_lines),
        classes_count |-> Len(struct.classes),
        functions_count |-> Len(struct.functions),
        imports_count |-> Len(struct.imports)]

\* "partial" only for diagnostics with something extracted
StatusNeedsStructure(struct) ==
    IF struct.errors # <<>>
       /\ (struct.classes # <<>> \/ struct.functions # <<>>
             \/ struct.variables # <<>> \/ struct.imports # <<>>)
    THEN "partial"
    ELSE "success"

\* "success" if not structure.errors else "partial"
StatusOf(struct) == IF struct.errors = <<>> THEN "success" ELSE "partial"

\* the dictionary analyze_python_code builds from the structure; the
\* dataclasses are records already, so asdict changes nothing
ResultDict(source, struct) ==
    [status |-> StatusOf(struct),
     structure |-> [classes |-> struct.classes,
                    functions |-> struct.functions,
                    variables |-> struct.variables,
                    imports |-> struct.imports],
     errors |-> struct.errors,
     metrics |-> _calculate_metrics(source, struct)]

\* analyze_python_code on what analyzer.analyze() returned or raised
AnalyzedCode(source, out) ==
    IF out.kind = "raise" THEN out ELSE Returned(ResultDict(source, out.value))

\* analyze_python_code: a fresh analyzer per call
analyze_python_code(source, heap) ==
    AnalyzedCode(source, analyze(PythonCodeAnalyzer(source), heap).out)

\* ----------------------------------------------------- inputs of the analysis
SourceLines ==
    { <<>>, <<" ">>, <<"#", "c">>,
      <<"def f(): pass">>, <<"class A:">>,
      <<" ", "def m(self): pass">>, <<" ", "async def n(self): pass">>,
      <<"@f()()">>, <<" ", "@g">>, <<"def broken(">>, <<"import os">> }

SourceTexts == {Join(ls, "\n") : ls \in SeqsOf(SourceLines, 1, MaxLines)}

\* ------------------------------------------ specification: analysis of a text
Init ==
    /\ source_code \in SourceTexts
    /\ structure = NoValue
    /\ result = NoValue
    /\ earlier = NoValue
    /\ calls = 0
    /\ file_path = <<>>
    /\ file = NoValue
    /\ request = NoValue
    /\ repo = NoValue
    /\ walk = NoValue
    /\ results = NoValue
    /\ instances = NoValue
    /\ tasks = NoValue
    /\ held = NoValue

\* POST /code/analyze: one call of analyze_python_code on the text; structure
\* is what the call's analyzer returned from analyze()
AnalyzePythonCode ==
    /\ calls < MaxCalls
    /\ \E heap \in HeapBases :
          /\ structure' = analyze(PythonCodeAnalyzer(source_code), heap).out
          /\ result' = analyze_python_code(source_code, heap)
    /\ earlier' = result
    /\ calls' = calls + 1
    /\ UNCHANGED <<source_code, file_path, file, request,
                 repo, walk, results,
                 instances, tasks, held>>

Next == AnalyzePythonCode

Spec == Init /\ [][Next]_vars

\* --------------------------------------------------- claims on the analysis
Analysed == result.kind = "return"

ParseFails == ast_parse(source_code).kind = "raise"

StructureIsEmpty(struct) ==
    /\ struct.classes = <<>>
    /\ struct.functions = <<>>
    /\ struct.variables = <<>>
    /\ struct.imports = <<>>

\* the function definitions in the immediate body of the module
ModuleLevelDefs == SelectSeq(ast_parse(source_code).value.body, IsFunctionDef)

\* C1: a function definition in the immediate body of a class is in that
\* class's methods and not in structure.functions, so that functions (and
\* metrics.functions_count) holds exactly the module-level definitions.
C1_FunctionsAreModuleLevel ==
    (Analysed /\ result.value.status = "success") =>
        LET functions == result.value.structure.functions
            classes == result.value.structure.classes
        IN /\ \A c \in 1..Len(classes) : \A m \in 1..Len(classes[c].methods) :
                \A f \in 1..Len(functions) :
                    ~(/\ functions[f].name = classes[c].methods[m].name
                      /\ functions[f].lineno = classes[c].methods[m].lineno)
           /\ Len(functions) = Len(ModuleLevelDefs)
           /\ \A f \in 1..Len(functions) :
                /\ functions[f].name = ModuleLevelDefs[f].name
                /\ functions[f].lineno = ModuleLevelDefs[f].lineno
           /\ result.value.metrics.functions_count = Len(ModuleLevelDefs)

\* C2: for every text, parsable or not, total_lines = blank_lines + code_lines
\* + comment_lines, and none of the four counts is negative.
C2_LineCountsAddUp ==
    Analysed =>
        LET m == result.value.metrics
        IN /\ m.total_lines = m.blank_lines + m.code_lines + m.comment_lines
           /\ m.total_lines >= 0
           /\ m.blank_lines >= 0
           /\ m.code_lines >= 0
           /\ m.comment_lines >= 0

\* a text that fails to parse and has blank, comment and code lines
C2_Witness ==
    /\ Analysed
    /\ ParseFails
    /\ result.value.metrics.blank_lines > 0
    /\ result.value.metrics.comment_lines > 0
    /\ result.value.metrics.code_lines > 0

\* C3: in every result of analyze_python_code the three counts of the metrics
\* are the lengths of the three lists of the structure.
C3_CountsMatchStructure ==
    Analysed =>
        /\ result.value.metrics.classes_count = Len(result.value.structure.classes)
        /\ result.value.metrics.functions_count = Len(result.value.structure.functions)
        /\ result.value.metrics.imports_count = Len(result.value.structure.imports)

\* a result with one class, two functions and three imports
C3_Witness ==
    /\ Analysed
    /\ result.value.metrics.classes_count = 1
    /\ result.value.metrics.functions_count = 2
    /\ result.value.metrics.imports_count = 1

C5_PartialNeedsStructure ==
    Analysed =>
        /\ result.value.errors = <<>> => result.value.status = "success"
        /\ result.value.status = "partial" <=>
              (result.value.errors # <<>> /\ ~StructureIsEmpty(result.value.structure))

\* C5 amended: no diagnostics gives "success", and "partial" is reported
\* exactly when there are one or more diagnostics, the structure being empty
\* or not.
C5_StatusFollowsDiagnostics ==
    Analysed =>
        /\ result.value.status \in {"success", "partial"}
        /\ result.value.errors = <<>> <=> result.value.status = "success"
        /\ result.value.errors # <<>> <=> result.value.status = "partial"

\* "partial" reported with a diagnostic and an empty structure
C5_Witness ==
    /\ Analysed
    /\ result.value.status = "partial"
    /\ result.value.errors # <<>>
    /\ StructureIsEmpty(result.value.structure)

\* C6: two calls of analyze_python_code on the same text return equal
\* results, also when a decorator takes the fallback branch of
\* _get_decorator_name.
C6_SecondCallEqualsFirst ==
    (earlier.kind = "return" /\ Analysed) => result = earlier

\* ---------------------------------------------------------- detect_language
\* a file name is a sequence of one-character atoms
LANGUAGE_EXTENSIONS ==
    <<".", "p", "y">> :> "python" @@
    <<".", "j", "s">> :> "javascript" @@
    <<".", "t", "s">> :> "typescript" @@
    <<".", "j", "s", "x">> :> "javascript" @@
    <<".", "t", "s", "x">> :> "typescript" @@
    <<".", "j", "a", "v", "a">> :> "java" @@
    <<".", "g", "o">> :> "go" @@
    <<".", "r", "s">> :> "rust" @@
    <<".", "c", "p", "p">> :> "cpp" @@
    <<".", "c">> :> "c" @@
    <<".", "r", "b">> :> "ruby" @@
    <<".", "p", "h", "p">> :> "php"

\* str.lower and str.upper on the letters of the names' alphabet
LowerChar(c) == CASE c = "P" -> "p" [] c = "Y" -> "y" [] c = "C" -> "c" [] OTHER -> c

UpperChar(c) == CASE c = "p" -> "P" [] c = "y" -> "Y" [] c = "c" -> "C" [] OTHER -> c

lower(s) == [i \in 1..Len(s) |-> LowerChar(s[i])]

upper(s) == [i \in 1..Len(s) |-> UpperChar(s[i])]

\* str.rfind: the highest 0-based index of c in s, or -1
rfind(s, c) ==
    LET at == {i \in 1..Len(s) : s[i] = c}
    IN IF at = {} THEN 0 - 1 ELSE (CHOOSE i \in at : \A j \in at : j <= i) - 1

RECURSIVE SkipLeadingDots(_, _, _)
\* the while loop of os.path.splitext: the last dot starts an extension when
\* a character other than a dot stands before it in the last component
SkipLeadingDots(path, filenameIndex, dotIndex) ==
    IF filenameIndex >= dotIndex THEN <<path, <<>>>>
    ELSE IF path[filenameIndex + 1] # "."
    THEN <<SubSeq(path, 1, dotIndex), SubSeq(path, dotIndex + 1, Len(path))>>
    ELSE SkipLeadingDots(path, filenameIndex + 1, dotIndex)

\* os.path.splitext(path): <<root, ext>>
splitext(path) ==
    LET sepIndex == rfind(path, "/")
        dotIndex == rfind(path, ".")
    IN IF dotIndex > sepIndex THEN SkipLeadingDots(path, sepIndex + 1, dotIndex)
       ELSE <<path, <<>>>>

\* dict.get: the value, or None for a key the table does not hold
TableGet(table, key) == IF key \in DOMAIN table THEN table[key] ELSE None

\* the extension looked up as written, without .lower()
DetectCaseSensitive(path) == Returned(TableGet(LANGUAGE_EXTENSIONS, splitext(path)[2]))

detect_language(path) ==
    Returned(TableGet(LANGUAGE_EXTENSIONS, lower(splitext(path)[2])))

PathChars == {"p", "y", "P", "Y", "c", ".", "/"}

FilePaths == SeqsOf(PathChars, 0, MaxPathLen)

\* ----------------------------------- specification: detection of a file name
InitDetect ==
    /\ file_path \in FilePaths
    /\ source_code = <<>>
    /\ structure = NoValue
    /\ result = NoValue
    /\ earlier = NoValue
    /\ calls = 0
    /\ file = NoValue
    /\ request = NoValue
    /\ repo = NoValue
    /\ walk = NoValue
    /\ results = NoValue
    /\ instances = NoValue
    /\ tasks = NoValue
    /\ held = NoValue

\* GET /code/language: detect_language on the name; the service has no field
\* the call could change
DetectLanguage ==
    /\ calls < MaxCalls
    /\ result' = detect_language(file_path)
    /\ earlier' = result
    /\ calls' = calls + 1
    /\ UNCHANGED <<source_code, structure, file_path, file, request,
                 repo, walk, results,
                 instances, tasks, held>>

NextDetect == DetectLanguage

SpecDetect == InitDetect /\ [][NextDetect]_vars

\* the last component of a path
BaseName(path) == SubSeq(path, rfind(path, "/") + 2, Len(path))

\* the final extension of a name: from the last dot of the last component on,
\* when that dot follows a character that is not a dot; else none
FinalExtension(path) ==
    LET base == BaseName(path)
        last == rfind(base, ".") + 1
    IN IF last >= 1 /\ \E j \in 1..(last - 1) : base[j] # "."
       THEN SubSeq(base, last, Len(base))
       ELSE <<>>

\* C7: detect_language returns for every name, the answer is the tag the
\* table gives to the final extension in lower case, None when the table has
\* no such extension or the name has none, and the letter case of the name
\* does not change it.
C7_DetectByFinalExtension ==
    calls > 0 =>
        /\ result.kind = "return"
        /\ result.value =
              IF lower(FinalExtension(file_path)) \in DOMAIN LANGUAGE_EXTENSIONS
              THEN LANGUAGE_EXTENSIONS[lower(FinalExtension(file_path))]
              ELSE None
        /\ result = detect_language(lower(file_path))
        /\ result = detect_language(upper(file_path))
        /\ (earlier # NoValue => earlier = result)

\* an upper-case extension of the table
C7_Witness ==
    /\ calls > 0
    /\ file_path = <<"p", ".", "P", "Y">>
    /\ result = Returned("python")

\* ------------------------------------------------- operations on a file
\* open(file_path, "r", encoding="utf-8") and the read: the text, or the
\* exception of a missing, unreadable, directory or undecodable file
OpenRead(f) ==
    CASE f.kind = "text" -> Returned(f.content)
      [] f.kind = "missing" -> Raised("FileNotFoundError")
      [] f.kind = "unreadable" -> Raised("PermissionError")
      [] f.kind = "directory" -> Raised("IsADirectoryError")
      [] f.kind = "undecodable" -> Raised("UnicodeDecodeError")

\* str(e)
ErrorMessage(exc) ==
    CASE exc = "FileNotFoundError" -> "[Errno 2] No such file or directory"
      [] exc = "PermissionError" -> "[Errno 13] Permission denied"
      [] exc = "IsADirectoryError" -> "[Errno 21] Is a directory"
      [] exc = "UnicodeDecodeError" -> "'utf-8' codec can't decode byte"
      [] OTHER -> exc

\* a handler for a missing file alone
OnlyFileNotFound == {"FileNotFoundError"}

\* the classes "except Exception" catches, among those that can be raised
ExceptionClasses ==
    {"FileNotFoundError", "PermissionError", "IsADirectoryError",
     "UnicodeDecodeError", "SyntaxError", "IndentationError", "TabError"}

\* the except clause of analyze_python_file and of get_code_context
ErrorResult(outcome) ==
    IF outcome.exc \in ExceptionClasses
    THEN Returned([status |-> "error", message |-> ErrorMessage(outcome.exc)])
    ELSE Raised(outcome.exc)

analyze_python_file(f, heap) ==
    LET text == OpenRead(f)
    IN IF text.kind = "raise" THEN ErrorResult(text)
       ELSE LET analysis == analyze_python_code(text.value, heap)
            IN IF analysis.kind = "raise" THEN ErrorResult(analysis) ELSE analysis

RECURSIVE ReadLinesAt(_, _)
ReadLinesAt(s, cur) ==
    IF s = <<>> THEN (IF cur = <<>> THEN <<>> ELSE <<cur>>)
    ELSE IF Head(s) = "\n" THEN <<Append(cur, "\n")>> \o ReadLinesAt(Tail(s), <<>>)
    ELSE ReadLinesAt(Tail(s), Append(cur, Head(s)))

\* f.readlines(): the lines, each with its terminator
readlines(content) == ReadLinesAt(content, <<>>)

Max(a, b) == IF a >= b THEN a ELSE b

Min(a, b) == IF a <= b THEN a ELSE b

\* a slice bound as list slicing reads it: a negative bound counts from the
\* end, and every bound is clamped to 0..n
SliceIndex(i, n) == IF i < 0 THEN Max(i + n, 0) ELSE Min(i, n)

\* seq[a:b]
PySlice(seq, a, b) ==
    SubSeq(seq, SliceIndex(a, Len(seq)) + 1, SliceIndex(b, Len(seq)))

\* end_line or start_line: an omitted end_line is <<>>, a given one <<n>>
EndLineOr(end_line, start_line) ==
    IF end_line = <<>> \/ end_line[1] = 0 THEN start_line ELSE end_line[1]

\* the context starts one line late
ContextStartLate(start_line, context_lines) == Max(0, start_line - context_lines)

ContextStart(start_line, context_lines) == Max(0, start_line - context_lines - 1)

ContextEnd(n, end_line, context_lines) == Min(n, end_line + context_lines)

get_code_context(path, f, start_line, end_line, context_lines) ==
    LET text == OpenRead(f)
        lines == readlines(text.value)
        end == EndLineOr(end_line, start_line)
        context_start == ContextStart(start_line, context_lines)
        context_end == ContextEnd(Len(lines), end, context_lines)
    IN IF text.kind = "raise" THEN ErrorResult(text)
       ELSE Returned(
              [status |-> "success",
               file_path |-> path,
               start_line |-> start_line,
               end_line |-> end,
               context |->
                   [before |-> Flatten(PySlice(lines, context_start, start_line - 1)),
                    target |-> Flatten(PySlice(lines, start_line - 1, end)),
                    after |-> Flatten(PySlice(lines, end, context_end))],
               full_context |-> Flatten(PySlice(lines, context_start, context_end))])

\* ------------------------------------------------ inputs of the file operations
\* line i of a file: a statement of the subset and a comment that numbers it
FileLine(i) ==
    <<(CASE i % 3 = 1 -> "import os" [] i % 3 = 2 -> "x = 1" [] OTHER -> "def f(): pass"),
      " ", "#", ToString(i)>>

\* the text of n lines, the last one with or without its terminator
FileText(n, terminated) ==
    Join([i \in 1..n |-> FileLine(i)], "\n") \o (IF terminated /\ n > 0 THEN <<"\n">> ELSE <<>>)

Files ==
    {[kind |-> k] : k \in {"missing", "unreadable", "directory", "undecodable"}}
    \cup {[kind |-> "text", content |-> FileText(n, t)] : n \in 0..MaxFileLines, t \in BOOLEAN}

RequestLines == (0 - Slack)..(MaxFileLines + Slack)

RequestEndLines == {<<>>} \cup {<<n>> : n \in RequestLines}

ContextSizes == (0 - 1)..MaxContext

\* ------------------------------------- specification: operations on one file
InitFile ==
    /\ file \in Files
    /\ file_path = <<"p", ".", "p", "y">>
    /\ source_code = <<>>
    /\ structure = NoValue
    /\ result = NoValue
    /\ earlier = NoValue
    /\ calls = 0
    /\ request = NoValue
    /\ repo = NoValue
    /\ walk = NoValue
    /\ results = NoValue
    /\ instances = NoValue
    /\ tasks = NoValue
    /\ held = NoValue

\* POST /code/analyze/file.  One operation per behaviour: the service keeps
\* nothing from one call to the next.
AnalyzePythonFile ==
    /\ calls = 0
    /\ \E heap \in HeapBases : result' = analyze_python_file(file, heap)
    /\ request' = NoValue
    /\ calls' = calls + 1
    /\ UNCHANGED <<source_code, structure, earlier, file_path, file,
                 repo, walk, results,
                 instances, tasks, held>>

\* POST /code/context: GetContextRequest puts no limit on the three integers
GetCodeContext ==
    /\ calls = 0
    /\ \E start_line \in RequestLines, end_line \in RequestEndLines,
          context_lines \in ContextSizes :
          /\ request' = [start_line |-> start_line, end_line |-> end_line,
                         context_lines |-> context_lines]
          /\ result' = get_code_context(file_path, file, start_line, end_line,
                                        context_lines)
    /\ calls' = calls + 1
    /\ UNCHANGED <<source_code, structure, earlier, file_path, file,
                 repo, walk, results,
                 instances, tasks, held>>

NextFile == AnalyzePythonFile \/ GetCodeContext

SpecFile == InitFile /\ [][NextFile]_vars

\* ---------------------------------------------- claims on the file operations
ContextReturned ==
    /\ request # NoValue
    /\ result.kind = "return"
    /\ result.value.status = "success"

RECURSIVE LinesBetween(_, _, _)
\* the lines at the 0-based positions a <= i < b that the file has, joined
LinesBetween(lines, a, b) ==
    IF a >= b THEN <<>>
    ELSE (IF a >= 0 /\ a < Len(lines) THEN lines[a + 1] ELSE <<>>)
            \o LinesBetween(lines, a + 1, b)

\* how many of the 0-based positions a <= i < b the file has
CountBetween(lines, a, b) == Cardinality({i \in a..(b - 1) : i >= 0 /\ i < Len(lines)})

\* C8: with 1 <= start_line <= end_line and context_lines >= 0, before is the
\* lines [max(0, start_line - context_lines - 1), start_line - 1), target the
\* lines [start_line - 1, end_line) and after the lines [end_line, min(N,
\* end_line + context_lines)), 0-based and half-open; before and after hold at
\* most context_lines lines each and the three ranges do not overlap.
C8_ContextSlices ==
    (/\ ContextReturned
     /\ 1 <= request.start_line
     /\ request.start_line <= result.value.end_line
     /\ (request.end_line = <<>> \/ request.end_line[1] = result.value.end_line)
     /\ request.context_lines >= 0) =>
        LET lines == readlines(file.content)
            s == request.start_line
            e == result.value.end_line
            c == request.context_lines
            lo == IF s - c - 1 > 0 THEN s - c - 1 ELSE 0
            hi == IF e + c < Len(lines) THEN e + c ELSE Len(lines)
        IN /\ result.value.context.before = LinesBetween(lines, lo, s - 1)
           /\ result.value.context.target = LinesBetween(lines, s - 1, e)
           /\ result.value.context.after = LinesBetween(lines, e, hi)
           /\ CountBetween(lines, lo, s - 1) <= c
           /\ CountBetween(lines, e, hi) <= c
           /\ lo <= s - 1 /\ s - 1 < e

\* start_line 3 with one line of context in a file of four lines: before is
\* line 2, target line 3, after line 4
C8_Witness ==
    /\ ContextReturned
    /\ Len(readlines(file.content)) = 4
    /\ request = [start_line |-> 3, end_line |-> <<>>, context_lines |-> 1]
    /\ result.value.context.before = FileLine(2) \o <<"\n">>
    /\ result.value.context.target = FileLine(3) \o <<"\n">>
    /\ result.value.context.after = FileLine(4) \o <<"\n">>

\* C9: for every start_line, end_line and context_lines the request model
\* accepts, the bounds are clamped at the file's boundaries: no part is taken
\* by wrap-around from the end of the file, each part is the lines of the file
\* between its two bounds.
C9_NoWrapAround ==
    ContextReturned =>
        LET lines == readlines(file.content)
            s == request.start_line
            e == result.value.end_line
            c == request.context_lines
        IN /\ result.value.context.before =
                 LinesBetween(lines, ContextStart(s, c), s - 1)
           /\ result.value.context.target = LinesBetween(lines, s - 1, e)
           /\ result.value.context.after =
                 LinesBetween(lines, e, ContextEnd(Len(lines), e, c))

\* C10: on a missing, unreadable or undecodable file analyze_python_file and
\* get_code_context return {status: "error", message} and nothing else; they
\* do not raise.
C10_FileErrorsAreReturned ==
    (calls > 0 /\ file.kind # "text") =>
        /\ result.kind = "return"
        /\ DOMAIN result.value = {"status", "message"}
        /\ result.value.status = "error"

\* get_code_context on an undecodable file
C10_Witness ==
    /\ calls > 0
    /\ request # NoValue
    /\ file.kind = "undecodable"
    /\ result = Returned([status |-> "error",
                          message |-> "'utf-8' codec can't decode byte"])

\* ------------------------------------------------------- analyze_repository
\* The tree under repo_path.  A name is a sequence of characters; a listing is
\* the entries of a directory in the order os.scandir gives them.
MaxNodes == 3

FileEntry(name, f) == [kind |-> "file", name |-> name, file |-> f]

DirEntry(name, entries) == [kind |-> "dir", name |-> name, entries |-> entries]

Text(content) == [kind |-> "text", content |-> content]

PyName == <<"a", ".", "p", "y">>

HiddenPyName == <<".", "h", ".", "p", "y">>

JsName == <<"c", ".", "j", "s">>

UpperPyName == <<"p", ".", "P", "Y">>

DirNames == {<<"p", "k", "g">>, <<".", "g", "i", "t">>}

\* what a.py can hold: two lines with a class and a method, one line that
\* does not parse, bytes that are not UTF-8, or a file open() is refused
PyFiles ==
    {Text(Join(<<<<"class A:">>, <<" ", "def m(self): pass">>>>, "\n")),
     Text(<<"def broken(">>),
     [kind |-> "undecodable"],
     [kind |-> "unreadable"]}

FileEntries ==
    {FileEntry(PyName, f) : f \in PyFiles}
    \cup {FileEntry(HiddenPyName, Text(<<"import os">>)),
          FileEntry(JsName, Text(<<"x = 1">>)),
          FileEntry(UpperPyName, Text(<<"import os">>))}

RECURSIVE Nodes(_)
\* the number of entries of a listing, at every depth
Nodes(listing) ==
    IF listing = <<>> THEN 0
    ELSE 1 + (IF Head(listing).kind = "dir" THEN Nodes(Head(listing).entries) ELSE 0)
           + Nodes(Tail(listing))

\* no two entries of a directory have the same name
NamedOnce(listing) ==
    \A i, j \in 1..Len(listing) : listing[i].name = listing[j].name => i = j

RECURSIVE Listings(_)
\* the listings of at most n entries in all
Listings(n) ==
    IF n <= 0 THEN {<<>>}
    ELSE LET smaller == Listings(n - 1)
             files == {<<f>> \o rest : f \in FileEntries, rest \in smaller}
             dirs == UNION {{<<DirEntry(d, sub)>> \o rest :
                               rest \in Listings(n - 1 - Nodes(sub))} :
                            d \in DirNames, sub \in smaller}
         IN {<<>>} \cup {l \in files \cup dirs : NamedOnce(l)}

\* repo_path names a directory, nothing, or a directory that cannot be listed
Roots ==
    {[kind |-> "dir", entries |-> l] : l \in Listings(MaxNodes)}
    \cup {[kind |-> "missing"], [kind |-> "unreadable"]}

\* the extensions argument: absent (None) or a list
ExtensionLists ==
    {<<>>, <<<<<<".", "p", "y">>, <<".", "j", "s">>>>>>, <<<<<<".", "j", "s">>>>>>}

Repos == [root : Roots, extensions : ExtensionLists]

\* "if extensions is None: extensions = [".py"]"
ExtensionsOr(extensions) ==
    IF extensions = <<>> THEN <<<<".", "p", "y">>>> ELSE extensions[1]

\* the dictionary analyze_repository starts from
EmptyResults ==
    [files |-> <<>>,
     summary |-> [total_files |-> 0, total_lines |-> 0, total_classes |-> 0,
                  total_functions |-> 0, languages |-> <<>>]]

\* x in list
InList(x, list) == \E i \in 1..Len(list) : list[i] = x

IsDir(entry) == entry.kind = "dir"

IsFile(entry) == entry.kind = "file"

\* every directory is kept in dirs
AnyDirectory(entry) == TRUE

\* "dirs[:] = [d for d in dirs if not d.startswith(".")]"
NotHidden(entry) == ~StartsWith(entry.name, ".")

\* the directories os.walk goes into after `top`, in the order of dirs
Pending(top, dirs) ==
    [k \in 1..Len(dirs) |->
        [path |-> Append(top.path, dirs[k].name),
         node |-> [kind |-> "dir", entries |-> dirs[k].entries]]]

\* os.path.relpath(os.path.join(root, filename), repo_path)
RelPath(root, filename) == Join(Append(root, filename), "/")

\* dict.get(key, default)
DictGet(dict, key, default) == IF key \in DOMAIN dict THEN dict[key] ELSE default

\* a summary whose total_lines is left as it was
SummaryKeepsLines(summary, metrics, language) ==
    [summary EXCEPT !.total_files = @ + 1,
                    !.languages = (language :> 1) @@ @]

\* "# Update summary": the four totals and the per-language counter
UpdateSummary(summary, metrics, language) ==
    [total_files |-> summary.total_files + 1,
     total_lines |-> summary.total_lines + DictGet(metrics, "total_lines", 0),
     total_classes |-> summary.total_classes + DictGet(metrics, "classes_count", 0),
     total_functions |->
        summary.total_functions + DictGet(metrics, "functions_count", 0),
     languages |->
        (language :> DictGet(summary.languages, language, 0) + 1) @@ summary.languages]

FileResult(rel_path, language, analysis) ==
    [path |-> rel_path, language |-> language, structure |-> analysis.structure,
     metrics |-> analysis.metrics,
     errors |-> DictGet(analysis, "errors", <<>>)]

\* nothing more is recorded once an entry with diagnostics is in files
RecordUntilDiagnostic(res, rel_path, language, analysis) ==
    IF analysis.status = "success"
       /\ \A i \in 1..Len(res.files) : res.files[i].errors = <<>>
    THEN [files |-> Append(res.files, FileResult(rel_path, language, analysis)),
          summary |-> UpdateSummary(res.summary, analysis.metrics, language)]
    ELSE res

\* the body of "if language == "python"" once analyze_python_file returned
RecordAnalysis(res, rel_path, language, analysis) ==
    IF analysis.status \in {"success", "partial"}
    THEN [files |-> Append(res.files, FileResult(rel_path, language, analysis)),
          summary |-> UpdateSummary(res.summary, analysis.metrics, language)]
    ELSE res

\* a file of any language is analysed
AnyLanguage(filename) == TRUE

\* "if language == "python""
IsPython(filename) == detect_language(filename) = Returned("python")

\* "if ext not in extensions: continue", on the extension as it is written
HasRequestedExtension(filename, extensions) ==
    InList(splitext(filename)[2], extensions)

\* ------------------------------------- specification: the scan of a tree
\* walk holds the locals of the call: the extensions in force, the
\* directories os.walk has still to list (stack), the directory of the
\* current iteration (root) and its files not yet looked at (files); opened
\* and listed note the paths given to open() and to os.scandir.
InitScan ==
    /\ repo \in Repos
    /\ walk = NoValue
    /\ results = NoValue
    /\ instances = NoValue
    /\ tasks = NoValue
    /\ held = NoValue
    /\ source_code = <<>>
    /\ structure = NoValue
    /\ result = NoValue
    /\ earlier = NoValue
    /\ calls = 0
    /\ file_path = <<>>
    /\ file = NoValue
    /\ request = NoValue

Walking == walk # NoValue /\ walk.phase = "walk"

\* a file of the current directory has not been looked at yet
FileWaits == Walking /\ walk.files # <<>>

\* POST /code/analyze/repository calls analyze_repository: the default of
\* extensions, the empty results and the call of os.walk(repo_path)
AnalyzeRepository ==
    /\ walk = NoValue
    /\ walk' = [phase |-> "walk",
                extensions |-> ExtensionsOr(repo.extensions),
                stack |-> <<[path |-> <<>>, node |-> repo.root]>>,
                root |-> <<>>, files |-> <<>>, opened |-> <<>>, listed |-> <<>>]
    /\ results' = EmptyResults
    /\ UNCHANGED <<source_code, structure, result, earlier, calls, file_path, file,
                   request, repo,
                 instances, tasks, held>>

\* the next (root, dirs, files) of os.walk, with the hidden directories taken
\* out of dirs; a directory that cannot be listed is passed over (onerror is
\* None)
WalkNext ==
    /\ Walking
    /\ walk.files = <<>>
    /\ walk.stack # <<>>
    /\ LET top == Head(walk.stack)
       IN IF top.node.kind # "dir"
          THEN walk' = [walk EXCEPT !.stack = Tail(@)]
          ELSE walk' = [walk EXCEPT
                           !.stack = Pending(top, SelectSeq(SelectSeq(top.node.entries,
                                                                      IsDir),
                                                            NotHidden))
                                        \o Tail(@),
                           !.root = top.path,
                           !.files = SelectSeq(top.node.entries, IsFile),
                           !.listed = Append(@, top.path)]
    /\ UNCHANGED <<source_code, structure, result, earlier, calls, file_path, file,
                   request, repo, results,
                 instances, tasks, held>>

\* the file was given to analyze_python_file: an exception leaves the call,
\* a value is recorded
FileAnalysed(rel_path, language, analysis) ==
    IF analysis.kind = "raise"
    THEN [walk |-> [walk EXCEPT !.phase = "done", !.opened = Append(@, rel_path)],
          results |-> results, result |-> analysis, calls |-> calls + 1]
    ELSE [walk |-> [walk EXCEPT !.files = Tail(@), !.opened = Append(@, rel_path)],
          results |-> RecordAnalysis(results, rel_path, language, analysis.value),
          result |-> result, calls |-> calls]

\* "continue", and a file whose language is not "python"
FileSkipped ==
    [walk |-> [walk EXCEPT !.files = Tail(@)], results |-> results,
     result |-> result, calls |-> calls]

\* one iteration of "for filename in files": what the call's state becomes
Iteration(heap) ==
    IF /\ HasRequestedExtension(Head(walk.files).name, walk.extensions)
       /\ IsPython(Head(walk.files).name)
    THEN FileAnalysed(RelPath(walk.root, Head(walk.files).name),
                      detect_language(Head(walk.files).name).value,
                      analyze_python_file(Head(walk.files).file, heap))
    ELSE FileSkipped

Becomes(next) ==
    /\ walk' = next.walk
    /\ results' = next.results
    /\ result' = next.result
    /\ calls' = next.calls

ProcessFile ==
    /\ FileWaits
    /\ \E heap \in HeapBases : Becomes(Iteration(heap))
    /\ UNCHANGED <<source_code, structure, earlier, file_path, file, request, repo,
                 instances, tasks, held>>

\* "return results", and the route's {"status": "success", **result}
ReturnResults ==
    /\ Walking
    /\ walk.files = <<>>
    /\ walk.stack = <<>>
    /\ result' = Returned([status |-> "success", files |-> results.files,
                           summary |-> results.summary])
    /\ calls' = calls + 1
    /\ walk' = [walk EXCEPT !.phase = "done"]
    /\ UNCHANGED <<source_code, structure, earlier, file_path, file, request, repo,
                   results,
                 instances, tasks, held>>

NextScan == AnalyzeRepository \/ WalkNext \/ ProcessFile \/ ReturnResults

SpecScan == InitScan /\ [][NextScan]_vars

\* The call runs on until it returns: weak fairness of each step.  ProcessFile
\* can be taken exactly when FileWaits holds, so its fairness is written with
\* FileWaits for its enabling condition.
SpecScanFair ==
    /\ SpecScan
    /\ WF_vars(AnalyzeRepository)
    /\ WF_vars(WalkNext)
    /\ WF_vars(ReturnResults)
    /\ ([]<>~FileWaits \/ []<><<ProcessFile>>_vars)

\* --------------------------------------------------- claims on the scan
ScanDone == walk # NoValue /\ walk.phase = "done"

ScanReturned == ScanDone /\ result.kind = "return"

RECURSIVE AllFiles(_, _, _)
\* the files of a listing at every depth: the path from the root, the name,
\* the content, and whether a directory on the path has a name that starts
\* with "."
AllFiles(listing, dirpath, hidden) ==
    UNION {IF listing[i].kind = "file"
           THEN {[path |-> RelPath(dirpath, listing[i].name), name |-> listing[i].name,
                  file |-> listing[i].file, below_hidden |-> hidden]}
           ELSE AllFiles(listing[i].entries, Append(dirpath, listing[i].name),
                         hidden \/ StartsWith(listing[i].name, "."))
           : i \in 1..Len(listing)}

RepoFiles ==
    IF repo.root.kind = "dir" THEN AllFiles(repo.root.entries, <<>>, FALSE) ELSE {}

PathsOf(files) == {files[i].path : i \in 1..Len(files)}

Opened == {walk.opened[i] : i \in 1..Len(walk.opened)}

RECURSIVE SumMetric(_, _)
SumMetric(files, key) ==
    IF files = <<>> THEN 0 ELSE Head(files).metrics[key] + SumMetric(Tail(files), key)

RECURSIVE SumValues(_)
SumValues(dict) ==
    IF DOMAIN dict = {} THEN 0
    ELSE LET k == CHOOSE k \in DOMAIN dict : TRUE
         IN dict[k] + SumValues([j \in DOMAIN dict \ {k} |-> dict[j]])

SummaryMatches(res) ==
    /\ res.summary.total_files = Len(res.files)
    /\ res.summary.total_lines = SumMetric(res.files, "total_lines")
    /\ res.summary.total_classes = SumMetric(res.files, "classes_count")
    /\ res.summary.total_functions = SumMetric(res.files, "functions_count")
    /\ SumValues(res.summary.languages) = res.summary.total_files

\* C11: after each file analyze_repository has processed, and in what it
\* returns, total_files is the number of entries of files, total_lines,
\* total_classes and total_functions are the sums of the entries' metrics, and
\* the counters of languages add up to total_files.
C11_SummaryMatchesFiles ==
    /\ results # NoValue => SummaryMatches(results)
    /\ ScanReturned => SummaryMatches(result.value)

\* two files of different sizes are in the returned summary
C11_Witness ==
    /\ ScanReturned
    /\ result.value.summary.total_files = 2
    /\ result.value.summary.total_lines = 3
    /\ result.value.summary.total_classes = 1
    /\ result.value.summary.languages = ("python" :> 2)

\* a file the scan is asked for: requested extension, detected as Python, a
\* name and a path without a hidden component
Eligible(f) ==
    /\ ~f.below_hidden
    /\ ~StartsWith(f.name, ".")
    /\ HasRequestedExtension(f.name, ExtensionsOr(repo.extensions))
    /\ detect_language(f.name) = Returned("python")

\* C12: a file that does not parse or cannot be decoded does not abort
\* analyze_repository: the scan comes to its end and returns, and every
\* eligible file that can be read is in files, wherever the failing file
\* stands in the walk.
C12_FailureDoesNotAbortScan ==
    <>(/\ ScanDone
       /\ result.kind = "return"
       /\ \A f \in RepoFiles :
             (Eligible(f) /\ f.file.kind = "text") =>
                 f.path \in PathsOf(result.value.files))

\* a file that cannot be decoded was opened first, a file opened after it is
\* reported
C12_Witness ==
    /\ ScanReturned
    /\ \E f \in RepoFiles : \E i, j \in 1..Len(walk.opened) :
          /\ i < j
          /\ f.file.kind = "undecodable"
          /\ walk.opened[i] = f.path
          /\ walk.opened[j] \in PathsOf(result.value.files)

\* a file the scan gave to analyze_python_file and that open() or the
\* decoding refused
Unread(f) == f.path \in Opened /\ f.file.kind \in {"undecodable", "unreadable"}

\* C13: a supported file that cannot be read or decoded is reported as a
\* per-file error: the returned files hold an entry for it.
C13_UnreadFileHasEntry ==
    ScanReturned =>
        \A f \in RepoFiles : Unread(f) => f.path \in PathsOf(result.value.files)

\* C14: analyze_repository does not go into a directory whose name starts
\* with ".": no such directory is listed, and no file below one, at any depth,
\* is opened or is in files.
C14_HiddenDirectoriesNotVisited ==
    walk # NoValue =>
        /\ \A i \in 1..Len(walk.listed) : \A k \in 1..Len(walk.listed[i]) :
              ~StartsWith(walk.listed[i][k], ".")
        /\ \A f \in RepoFiles :
              f.below_hidden =>
                  /\ f.path \notin Opened
                  /\ f.path \notin PathsOf(results.files)
                  /\ ScanReturned => f.path \notin PathsOf(result.value.files)

\* a Python file two levels below a hidden directory, and the scan has
\* returned after listing the root
C14_Witness ==
    /\ ScanReturned
    /\ walk.listed = <<<<>>>>
    /\ \E f \in RepoFiles :
          /\ f.below_hidden
          /\ f.file.kind = "text"
          /\ f.path = <<".", "g", "i", "t", "/", "p", "k", "g", "/", "a", ".", "p", "y">>

\* C15: a file whose name starts with "." is not analysed: it is not opened
\* and is not in files.
C15_HiddenFilesExcluded ==
    walk # NoValue =>
        \A f \in RepoFiles :
            StartsWith(f.name, ".") =>
                /\ f.path \notin Opened
                /\ f.path \notin PathsOf(results.files)

\* the file of the current iteration has a requested extension and is not
\* detected as Python
UnsupportedWaits ==
    /\ FileWaits
    /\ HasRequestedExtension(Head(walk.files).name, walk.extensions)
    /\ detect_language(Head(walk.files).name) # Returned("python")

\* C16: a file with a requested extension whose language is not "python" is
\* passed over in silence: the iteration leaves results and result as they
\* are and opens nothing, and languages has no key but "python".
C16_UnsupportedSkippedSilently ==
    /\ [][UnsupportedWaits =>
            /\ results' = results
            /\ result' = result
            /\ walk'.opened = walk.opened]_vars
    /\ [](results # NoValue => DOMAIN results.summary.languages \subseteq {"python"})

\* c.js was requested with ".js", stood in a listed directory, and the scan
\* returned with a Python file reported
C16_Witness ==
    /\ ScanReturned
    /\ InList(<<".", "j", "s">>, walk.extensions)
    /\ \E f \in RepoFiles : f.name = JsName /\ ~f.below_hidden
    /\ result.value.summary.total_files = 1
    /\ result.value.summary.languages = ("python" :> 1)

\* C17: on a root path that does not exist or cannot be listed the call ends
\* in an error, not in a normal result with no files and a summary of zeros.
C17_BadRootIsAnError ==
    (ScanDone /\ repo.root.kind \in {"missing", "unreadable"}) =>
        \/ result.kind = "raise"
        \/ result.value.status = "error"

\* ------------------------------- specification: definitions inside definitions
MaxScopeLines == 3

\* statements at the module level, in the body of a class or of a function,
\* and in the body of a function that stands in a class or in a function
ScopeLines ==
    { <<"def f():">>, <<"class A:">>, <<"x = 1">>,
      <<"import os, sys as s">>, <<"from a.b import x, y">>,
      <<"from . import x as z">>,
      <<" ", "def f():">>, <<" ", "def g(): pass">>, <<" ", "x = 1">>,
      <<" ", "import os">>,
      <<" ", " ", "def g(): pass">>, <<" ", " ", "x = 1">> }

ScopeTexts == {Join(ls, "\n") : ls \in SeqsOf(ScopeLines, 1, MaxScopeLines)}

InitScope ==
    /\ source_code \in ScopeTexts
    /\ structure = NoValue
    /\ result = NoValue
    /\ earlier = NoValue
    /\ calls = 0
    /\ file_path = <<>>
    /\ file = NoValue
    /\ request = NoValue
    /\ repo = NoValue
    /\ walk = NoValue
    /\ results = NoValue
    /\ instances = NoValue
    /\ tasks = NoValue
    /\ held = NoValue

SpecScope == InitScope /\ [][Next]_vars

\* ------------------------------------------------------- claims on the scopes
Module == ast_parse(source_code).value

RECURSIVE Statements(_)
\* every statement of a body, at every depth, in source order
Statements(body) ==
    IF body = <<>> THEN <<>>
    ELSE <<Head(body)>> \o Statements(Head(body).body) \o Statements(Tail(body))

RECURSIVE NestedDefLines(_, _)
\* the lines of the function definitions that stand inside the body of a
\* function, at any depth
NestedDefLines(body, inside) ==
    IF body = <<>> THEN {}
    ELSE (IF inside /\ IsFunctionDef(Head(body)) THEN {Head(body).lineno} ELSE {})
         \cup NestedDefLines(Head(body).body, inside \/ IsFunctionDef(Head(body)))
         \cup NestedDefLines(Tail(body), inside)

LinesOf(records) == {records[i].lineno : i \in 1..Len(records)}

\* C18: a function defined inside the body of another function, at any depth
\* and also inside a method, is not collected: it is neither in functions nor
\* in the methods of any class.
C18_NestedFunctionsNotCollected ==
    (Analysed /\ ~ParseFails) =>
        LET struct == result.value.structure
        IN \A n \in NestedDefLines(Module.body, FALSE) :
              /\ n \notin LinesOf(struct.functions)
              /\ \A i \in 1..Len(struct.classes) :
                    n \notin LinesOf(struct.classes[i].methods)

\* the lines of the assignments in the immediate body of the module
ModuleLevelAssignLines == LinesOf(SelectSeq(Module.body, IsAssign))

\* C19: variables holds module-level variables only: every entry is an
\* assignment in the immediate body of the module, and an assignment in the
\* body of a class, of a method or of a function gives no entry.
C19_VariablesAreModuleLevel ==
    (Analysed /\ ~ParseFails) =>
        LinesOf(result.value.structure.variables) \subseteq ModuleLevelAssignLines

\* what the claim says an import statement yields
ImportInfos(stmt) ==
    IF stmt.type = "Import"
    THEN [k \in 1..Len(stmt.names) |->
            [module |-> stmt.names[k].name, names |-> <<stmt.names[k].name>>,
             alias |-> stmt.names[k].asname, lineno |-> stmt.lineno,
             is_from |-> FALSE]]
    ELSE <<[module |-> IF stmt.module = None THEN "" ELSE stmt.module,
            names |-> [k \in 1..Len(stmt.names) |-> stmt.names[k].name],
            alias |-> None, lineno |-> stmt.lineno, is_from |-> TRUE]>>

IsImport(stmt) == stmt.type \in {"Import", "ImportFrom"}

EntriesAt(imports, lineno) == SelectSeq(imports, LAMBDA e : e.lineno = lineno)

\* C20: a plain import statement that names k modules yields exactly k
\* entries (module the dotted path, names that path alone, alias the local
\* binding or none, is_from false); a from-import yields exactly one entry
\* (module the source module or "", names all the imported names in order,
\* alias none, is_from true); imports holds nothing else.
C20_ImportExtraction ==
    (Analysed /\ ~ParseFails) =>
        LET imports == result.value.structure.imports
            stmts == SelectSeq(Statements(Module.body), IsImport)
        IN /\ \A i \in 1..Len(stmts) :
                 EntriesAt(imports, stmts[i].lineno) = ImportInfos(stmts[i])
           /\ Len(imports) = Len(Flatten([i \in 1..Len(stmts) |-> ImportInfos(stmts[i])]))

\* "import os, sys as s" gave two entries and "from . import x as z" one
C20_Witness ==
    /\ Analysed
    /\ source_code = Join(<<<<"import os, sys as s">>, <<"from . import x as z">>,
                            <<"from a.b import x, y">>>>, "\n")
    /\ Len(result.value.structure.imports) = 4
    /\ result.value.structure.imports[2].alias = "s"
    /\ result.value.structure.imports[3].module = ""
    /\ result.value.structure.imports[4].names = <<"x", "y">>

\* ------------------------------------------- further claims on the analysis
\* the name the claim gives to a decorator expression
ResolvedName(e) ==
    IF e.type = "Name" THEN e.id
    ELSE IF e.type = "Attribute" THEN _get_attr_name(e)
    ELSE IF e.type = "Call" /\ e.func.type = "Name" THEN e.func.id
    ELSE IF e.type = "Call" /\ e.func.type = "Attribute" THEN _get_attr_name(e.func)
    ELSE unparse(e)

\* C25: the name of a decorator is a function of its expression: a bare name
\* is itself, a dotted attribute its dotted path, a call the name or path of
\* what is called, and every other expression, a call of a call included, its
\* source text.
C25_DecoratorNameFromExpression ==
    (Analysed /\ ~ParseFails) =>
        LET defs == SelectSeq(Statements(Module.body), IsFunctionDef)
            functions == result.value.structure.functions
        IN \A i \in 1..Len(defs) : \A j \in 1..Len(functions) :
              functions[j].lineno = defs[i].lineno =>
                  functions[j].decorators =
                      [k \in 1..Len(defs[i].decorator_list) |->
                          ResolvedName(defs[i].decorator_list[k])]

\* C27: what analyze() returns on a fresh analyzer has at most one error,
\* and with an error it has no class, function, variable or import; so a
\* result of analyze_python_code with status "partial" has an empty structure
\* and the counts of classes, functions and imports are 0.
C27_ErrorsExcludeEntities ==
    Analysed =>
        /\ Len(structure.value.errors) <= 1
        /\ structure.value.errors # <<>> => StructureIsEmpty(structure.value)
        /\ result.value.status = "partial" =>
              /\ StructureIsEmpty(result.value.structure)
              /\ result.value.metrics.classes_count = 0
              /\ result.value.metrics.functions_count = 0
              /\ result.value.metrics.imports_count = 0

\* a text with an import and a definition before the line that does not parse
C27_Witness ==
    /\ Analysed
    /\ source_code = Join(<<<<"import os">>, <<"def f(): pass">>, <<"def broken(">>>>, "\n")
    /\ result.value.status = "partial"
    /\ Len(result.value.errors) = 1
    /\ result.value.metrics.total_lines = 3
    /\ result.value.metrics.imports_count = 0

\* C28: in every successful result of get_code_context, whatever start_line,
\* end_line and context_lines are (end_line < start_line, start_line beyond
\* the file, end_line = 0 included), before + target + after is full_context.
C28_PartsMakeFullContext ==
    ContextReturned =>
        result.value.context.before \o result.value.context.target
            \o result.value.context.after = result.value.full_context

\* C30: the extension filter of the scan agrees with detect_language: with
\* the default extensions, every readable file outside the hidden directories
\* that detect_language calls "python", whatever the case of its extension,
\* is analysed and is in files.
C30_FilterAgreesWithDetector ==
    (ScanReturned /\ repo.extensions = <<>>) =>
        \A f \in RepoFiles :
            (/\ ~f.below_hidden
             /\ detect_language(f.name) = Returned("python")
             /\ f.file.kind = "text") =>
                /\ f.path \in Opened
                /\ f.path \in PathsOf(result.value.files)

\* ------------------------------------ specification: signatures and bases
MaxShapeLines == 3

\* definitions with annotated, defaulted, starred, positional-only and
\* keyword-only parameters, classes with bases, and statements of a class body
ShapeLines ==
    { <<"def p(a, b: int = 1): pass">>, <<"def q(a, *args, **kw): pass">>,
      <<"def r(a=1, /): pass">>, <<"def s(a, *, c=3): pass">>,
      <<"class B(A, a.b.C):">>, <<"class D(A, G[T]):">>,
      <<" ", "def m(self): pass">>, <<" ", "def p(a, b: int = 1): pass">>,
      <<" ", "x = 1">> }

ShapeTexts == {Join(ls, "\n") : ls \in SeqsOf(ShapeLines, 1, MaxShapeLines)}

InitShapes ==
    /\ source_code \in ShapeTexts
    /\ structure = NoValue
    /\ result = NoValue
    /\ earlier = NoValue
    /\ calls = 0
    /\ file_path = <<>>
    /\ file = NoValue
    /\ request = NoValue
    /\ repo = NoValue
    /\ walk = NoValue
    /\ results = NoValue
    /\ instances = NoValue
    /\ tasks = NoValue
    /\ held = NoValue

SpecShapes == InitShapes /\ [][Next]_vars

\* ------------------------------------------------------ claims on the shapes
\* the parameters a signature declares, in the order of the declaration
DeclaredParameters(arguments) ==
    arguments.posonlyargs \o arguments.args \o arguments.vararg
        \o arguments.kwonlyargs \o arguments.kwarg

\* "name", or "name: <type-text>" when annotated
RenderedParameter(arg) ==
    IF arg.annotation = NoNode THEN arg.arg
    ELSE arg.arg \o ": " \o unparse(arg.annotation)

\* the records of functions and of every class's methods
FunctionInfos(struct) ==
    struct.functions
        \o Flatten([i \in 1..Len(struct.classes) |-> struct.classes[i].methods])

\* C21: args of a function or method is its parameter list: one entry for
\* every parameter the signature declares, in the order of the declaration,
\* "name" or "name: <type-text>", and no default value in an entry.
C21_ArgsAreTheParameterList ==
    (Analysed /\ ~ParseFails) =>
        LET defs == SelectSeq(Statements(Module.body), IsFunctionDef)
            infos == FunctionInfos(result.value.structure)
        IN \A i \in 1..Len(defs) : \A j \in 1..Len(infos) :
              infos[j].lineno = defs[i].lineno =>
                  LET declared == DeclaredParameters(defs[i].args)
                  IN infos[j].args =
                        [k \in 1..Len(declared) |-> RenderedParameter(declared[k])]

IsClassDef(stmt) == stmt.type = "ClassDef"

\* the name of a base-class expression
NameOfBase(base) ==
    IF base.type = "Name" THEN base.id ELSE JoinStr(Reversed(AttrParts(base)), ".")

\* C26: bases of a class has one entry for every base-class expression of the
\* class, in order: a bare name is itself, a chain a.b.C is "a.b.C".
C26_OneNamePerBase ==
    (Analysed /\ ~ParseFails) =>
        LET defs == SelectSeq(Statements(Module.body), IsClassDef)
            classes == result.value.structure.classes
        IN \A i \in 1..Len(defs) : \A j \in 1..Len(classes) :
              classes[j].lineno = defs[i].lineno =>
                  /\ Len(classes[j].bases) = Len(defs[i].bases)
                  /\ \A k \in 1..Len(defs[i].bases) :
                        defs[i].bases[k].type \in {"Name", "Attribute"} =>
                            k <= Len(classes[j].bases)
                            /\ classes[j].bases[k] = NameOfBase(defs[i].bases[k])

\* C29: in every record of a function or method, defaults is not longer than
\* args, whatever the shape of the signature.
C29_DefaultsFitArgs ==
    (Analysed /\ ~ParseFails) =>
        LET infos == FunctionInfos(result.value.structure)
        IN \A j \in 1..Len(infos) : Len(infos[j].defaults) <= Len(infos[j].args)

\* ------------------------------------------------ the analyzer, step by step
\* instances holds the analyzer objects, tasks the callers with the position
\* of each in its code, held the CodeStructure objects analyze() has returned.
\* A CodeStructure is built from the analyzer's own lists, "classes =
\* self.classes" and so on: it refers to the lists, it does not copy them.
MaxAnalyses == 2

MaxWalkLines == 3

MaxCallLines == 2

\* the calls of analyze_python_code that run at the same time
Calls == {1, 2}

\* what a visit_ method does to the analyzer before it visits the children
Before(self, node, heap) ==
    CASE node.type = "ClassDef" -> ClassVisited(self, node, heap)
      [] node.type = "FunctionDef" -> FunctionVisited(self, node, FALSE, heap)
      [] node.type = "AsyncFunctionDef" -> FunctionVisited(self, node, TRUE, heap)
      [] node.type = "Assign" -> AssignVisited(self, node)
      [] node.type = "Import" -> visit_Import(self, node, heap)
      [] node.type = "ImportFrom" -> visit_ImportFrom(self, node, heap)
      [] OTHER -> self

\* the nodes generic_visit goes on to; visit_Import and visit_ImportFrom do
\* not call it
Children(node) ==
    IF node.type \in {"Import", "ImportFrom"} THEN <<>> ELSE node.body

\* one analyzer kept on the service and used by every call
ServiceAnalyzer(t) == 1

\* "analyzer = PythonCodeAnalyzer(source_code)": a local of the call
AnalyzerOf(t) == t

\* the content of a returned CodeStructure: the lists of its analyzer as they
\* are now
Content(ref) == CodeStructure(instances[ref.instance])

Task(kind, pc, source) ==
    [kind |-> kind, pc |-> pc, source |-> source, heap |-> 0, frames |-> <<>>,
     analyses |-> 0, structure |-> NoValue, result |-> NoValue]

\* analyzer = PythonCodeAnalyzer(source_code)
Construct(t) ==
    /\ tasks[t].pc = "idle"
    /\ instances' = [instances EXCEPT
                        ![AnalyzerOf(t)] = PythonCodeAnalyzer(tasks[t].source)]
    /\ tasks' = [tasks EXCEPT ![t].pc = "constructed"]
    /\ UNCHANGED held

\* the task and its analyzer once ast.parse has returned or raised
Parsed(t, tree, heap) ==
    IF tree.kind = "return"
    THEN [task |-> [tasks[t] EXCEPT !.pc = "visiting", !.heap = heap,
                                    !.frames = tree.value.body],
          self |-> instances[AnalyzerOf(t)]]
    ELSE IF tree.exc \in Caught
    THEN [task |-> [tasks[t] EXCEPT !.pc = "returning", !.heap = heap],
          self |-> [instances[AnalyzerOf(t)] EXCEPT
                       !.errors = Append(@, SyntaxErrorText(tree))]]
    ELSE [task |-> [tasks[t] EXCEPT !.pc = "done", !.result = Raised(tree.exc)],
          self |-> instances[AnalyzerOf(t)]]

Parses(t, next) ==
    /\ tasks' = [tasks EXCEPT ![t] = next.task]
    /\ instances' = [instances EXCEPT ![AnalyzerOf(t)] = next.self]

\* analyze() is entered: "tree = ast.parse(self.source_code)".  A caller that
\* holds an analyzer can call analyze() on it again.
BeginAnalyze(t) ==
    /\ \/ tasks[t].pc = "constructed"
       \/ /\ tasks[t].pc = "analysed"
          /\ tasks[t].kind = "user"
          /\ tasks[t].analyses < MaxAnalyses
    /\ \E heap \in HeapBases :
          Parses(t, Parsed(t, ast_parse(instances[AnalyzerOf(t)].source_code), heap))
    /\ UNCHANGED held

\* self.visit(node) on the next node of the walk
VisitNode(t) ==
    /\ tasks[t].pc = "visiting"
    /\ tasks[t].frames # <<>>
    /\ instances' = [instances EXCEPT ![AnalyzerOf(t)] =
                        Before(@, Head(tasks[t].frames), tasks[t].heap)]
    /\ tasks' = [tasks EXCEPT ![t].frames =
                    Children(Head(tasks[t].frames)) \o Tail(tasks[t].frames)]
    /\ UNCHANGED held

\* "return CodeStructure(classes=self.classes, ...)"
ReturnStructure(t) ==
    /\ \/ tasks[t].pc = "returning"
       \/ tasks[t].pc = "visiting" /\ tasks[t].frames = <<>>
    /\ held' = Append(held, [instance |-> AnalyzerOf(t)])
    /\ tasks' = [tasks EXCEPT ![t].pc = "analysed", ![t].analyses = @ + 1,
                              ![t].structure = [instance |-> AnalyzerOf(t)]]
    /\ UNCHANGED instances

\* the rest of analyze_python_code: the result dictionary and the metrics
FinishCall(t) ==
    /\ tasks[t].pc = "analysed"
    /\ tasks[t].kind = "call"
    /\ tasks' = [tasks EXCEPT
                    ![t].pc = "done",
                    ![t].result = AnalyzedCode(tasks[t].source,
                                               Returned(Content(tasks[t].structure)))]
    /\ UNCHANGED <<instances, held>>

Others ==
    UNCHANGED <<source_code, structure, result, earlier, calls, file_path, file,
                request, repo, walk, results>>

AnalyzerLines ==
    { <<"import os">>, <<"def f(): pass">>, <<"class A:">>,
      <<" ", "def m(self): pass">>, <<" ", "x = 1">>, <<"@f()()">> }

AnalyzerTexts == {Join(ls, "\n") : ls \in SeqsOf(AnalyzerLines, 1, MaxWalkLines)}

CallLines == { <<"import os">>, <<"def f(): pass">>, <<"@f()()">> }

CallTexts == {Join(ls, "\n") : ls \in SeqsOf(CallLines, 1, MaxCallLines)}

InitOthers ==
    /\ source_code = <<>>
    /\ structure = NoValue
    /\ result = NoValue
    /\ earlier = NoValue
    /\ calls = 0
    /\ file_path = <<>>
    /\ file = NoValue
    /\ request = NoValue
    /\ repo = NoValue
    /\ walk = NoValue
    /\ results = NoValue

\* --------------------------------------- specification: one analyzer instance
\* a caller has constructed an analyzer on a text
InitAnalyzer ==
    /\ \E source \in AnalyzerTexts :
          /\ tasks = [t \in {1} |-> Task("user", "constructed", source)]
          /\ instances = [t \in {1} |-> PythonCodeAnalyzer(source)]
    /\ held = <<>>
    /\ InitOthers

NextAnalyzer ==
    \/ BeginAnalyze(1) /\ Others
    \/ VisitNode(1) /\ Others
    \/ ReturnStructure(1) /\ Others

SpecAnalyzer == InitAnalyzer /\ [][NextAnalyzer]_vars

\* ------------------------------- specification: calls on the shared service
\* the service is constructed and every call has its text
InitCalls ==
    /\ tasks \in [Calls -> {Task("call", "idle", source) : source \in CallTexts}]
    /\ instances = [t \in Calls |-> NoValue]
    /\ held = <<>>
    /\ InitOthers

NextCalls ==
    \E t \in Calls :
        \/ Construct(t) /\ Others
        \/ BeginAnalyze(t) /\ Others
        \/ VisitNode(t) /\ Others
        \/ ReturnStructure(t) /\ Others
        \/ FinishCall(t) /\ Others

SpecCalls == InitCalls /\ [][NextCalls]_vars

\* ------------------------------------------------- claims on the steps
\* what the call can return when it runs alone
Alone(source) == {analyze_python_code(source, heap) : heap \in HeapBases}

\* C22: calls of analyze_python_code on the shared service are independent:
\* however the steps of two calls interleave, each call returns what it can
\* return when it runs alone.
C22_CallsAreIndependent ==
    \A t \in DOMAIN tasks :
        (tasks[t].kind = "call" /\ tasks[t].pc = "done") =>
            tasks[t].result \in Alone(tasks[t].source)

\* the second call was constructed, parsed and visited a node while the first
\* was in the middle of its walk, and both returned
C22_Witness ==
    /\ tasks[1].pc = "done"
    /\ tasks[2].pc = "done"
    /\ tasks[1].source = Join(<<<<"import os">>, <<"def f(): pass">>>>, "\n")
    /\ tasks[2].source = Join(<<<<"@f()()">>, <<"def f(): pass">>>>, "\n")
    /\ held = <<[instance |-> 2], [instance |-> 1]>>
    /\ tasks[1].result.value.metrics.functions_count = 1
    /\ tasks[2].result.value.metrics.imports_count = 0

\* C23: a CodeStructure that analyze() returned is not changed by anything
\* that happens later, a second analyze() on the same analyzer included, and
\* no structure is returned with an entry twice.
C23_ReturnedStructureIsImmutable ==
    [][\A i \in 1..Len(held) : Content(held[i])' = Content(held[i])]_vars

RECURSIVE ClassAt(_, _, _)
\* the class whose body holds the statement of line lineno, None at the
\* module level, "absent" when the body has no such statement
ClassAt(body, lineno, current) ==
    IF body = <<>> THEN "absent"
    ELSE IF Head(body).lineno = lineno THEN current
    ELSE LET inner == ClassAt(Head(body).body, lineno,
                              IF IsClassDef(Head(body)) THEN Head(body).name
                              ELSE current)
         IN IF inner # "absent" THEN inner ELSE ClassAt(Tail(body), lineno, current)

\* C24: from the start of visit_ClassDef on a class until every descendant
\* of the class is visited, _current_class is the name of the class: each
\* definition and assignment inside a class is visited with the flag set,
\* and the flag is None only outside the classes.
C24_FlagHeldWhileClassVisited ==
    \A t \in DOMAIN tasks :
        (tasks[t].kind = "user" /\ tasks[t].pc = "visiting"
                                /\ tasks[t].frames # <<>>) =>
            instances[t]._current_class =
                ClassAt(ast_parse(tasks[t].source).value.body,
                        Head(tasks[t].frames).lineno, None)

====
